---- MODULE Spec2Model ----
(***************************************************************************)
(* Model of rmi_driver/src/commands.cpp: the materialized Command, the     *)
(* CommandHandler match predicate and the CommandRegister lookup.          *)
(*                                                                         *)
(* Wire strings (keys, values, telegrams, replies) are sequences of        *)
(* one-character strings, so that concatenation, splitting and comparison  *)
(* are computed.  Message tags (command_type, ...) are only ever tested    *)
(* for emptiness and equality by the code and are kept as TLA+ strings.    *)
(***************************************************************************)
EXTENDS Integers, Sequences, FiniteSets

VARIABLES full_command_, type_, command_id_,   \* the Command object
          handlers_,                             \* the CommandRegister
          reply,                                 \* reply line from the controller
          inbound,                               \* inbound RMI message
          fault,                                 \* "none", "oob" or "crashed"
          last                                   \* the last call and its result

vars == <<full_command_, type_, command_id_, handlers_, reply, inbound,
          fault, last>>

(* ------------------------------ bounds --------------------------------- *)

MaxEntries == 2

MaxReplyLen == 6

MaxHandlers == 2

(* ------------------------------ domains -------------------------------- *)

NL == "\n"

Keys == { <<"p">>, <<"J", "1">> }

Vals == { <<>>, <<"1", " ", "2">>, <<"x", ";">> }

CommandTypes == { "Get", "Cmd" }

CommandIds == { 0, 7 }

ReplyChars == { "e", "r", "o", "E", " " }

Code == [c \in ReplyChars |->
           CASE c = " " -> 32 [] c = "E" -> 69 [] c = "e" -> 101
             [] c = "o" -> 111 [] c = "r" -> 114]

SeqUpTo(S, n) == UNION { [1..k -> S] : k \in 0..n }

Replies == SeqUpTo(ReplyChars, MaxReplyLen)

Null == 0

NoFunc == "unset"

Funcs == { "f1", "f2" }

StrVals == { "", "PTP", "LIN" }

VecVals == { <<>>, <<1>>, <<1, 2>> }

MsgsWith(Strs, Vecs, Ids) ==
  [command_id : Ids, command_type : Strs, pose_reference : Strs,
   pose_type : Strs, pose : Vecs, velocity_type : Strs, velocity : Vecs]

Msgs == MsgsWith(StrVals, VecVals, {7})

Samples == MsgsWith({"", "PTP"}, {<<>>, <<1>>}, {0})

EmptyMsg == [command_id |-> 0, command_type |-> "", pose_reference |-> "",
             pose_type |-> "", pose |-> <<>>, velocity_type |-> "",
             velocity |-> <<>>]

(* ------------------------------ Command -------------------------------- *)

\* Variant: the pair separator is written without its leading space.
RECURSIVE toStringLoop_tightSep(_, _)
toStringLoop_tightSep(cmds, oss) ==
  IF cmds = <<>> THEN oss
  ELSE LET cmd == Head(cmds)
           o1  == oss \o cmd[1]
           o2  == IF Len(cmd[2]) > 0 THEN o1 \o <<":", " ">> \o cmd[2]
                                     ELSE o1
       IN  toStringLoop_tightSep(Tail(cmds), o2 \o <<";">>)

RECURSIVE toStringLoop(_, _)
toStringLoop(cmds, oss) ==
  IF cmds = <<>> THEN oss
  ELSE LET cmd == Head(cmds)
           o1  == oss \o cmd[1]
           o2  == IF Len(cmd[2]) > 0 THEN o1 \o <<" ", ":", " ">> \o cmd[2]
                                     ELSE o1
       IN  toStringLoop(Tail(cmds), o2 \o <<";">>)

\* Variant: ";" only between entries, none after the last one.
toString_noTrailing(fc, append_newline) ==
  LET all == toStringLoop(fc, <<>>)
      oss == IF all = <<>> THEN all ELSE SubSeq(all, 1, Len(all) - 1)
  IN  IF append_newline THEN oss \o <<NL>> ELSE oss

toString(fc, append_newline) ==
  LET oss == toStringLoop(fc, <<>>)
  IN  IF append_newline THEN oss \o <<NL>> ELSE oss

\* std::string::compare: <0, 0 or >0 by the first differing character,
\* then by length.
RECURSIVE compare(_, _)
compare(a, b) ==
  IF a = <<>> /\ b = <<>> THEN 0
  ELSE IF a = <<>> THEN -1
  ELSE IF b = <<>> THEN 1
  ELSE IF Code[Head(a)] # Code[Head(b)] THEN Code[Head(a)] - Code[Head(b)]
  ELSE compare(Tail(a), Tail(b))

ErrorStr == <<"e", "r", "r", "o", "r">>

\* Variant: only the first five characters of the reply are compared.
checkResponse_prefix(response) ==
  LET head == SubSeq(response, 1, IF Len(response) < 5 THEN Len(response)
                                                       ELSE 5)
  IN  IF compare(head, ErrorStr) # 0 THEN TRUE ELSE FALSE

checkResponse(response) ==
  IF compare(response, ErrorStr) # 0 THEN TRUE ELSE FALSE

\* Variant: the verb is always appended, an existing first entry is kept.
makeCommandEntries_append(fc, command, params, erase_params) ==
  LET cleared == IF erase_params THEN <<>> ELSE fc
  IN  Append(cleared, <<command, params>>)

makeCommandEntries(fc, command, params, erase_params) ==
  LET cleared == IF erase_params THEN <<>> ELSE fc
  IN  IF Len(cleared) > 0 THEN [cleared EXCEPT ![1] = <<command, params>>]
      ELSE Append(cleared, <<command, params>>)

getCommand(fc) == IF Len(fc) >= 1 THEN fc[1][1] ELSE <<>>

Pre == [full_command_ |-> full_command_, type_ |-> type_,
        command_id_ |-> command_id_, handlers_ |-> handlers_,
        fault |-> fault]

Call(op, args, ret) == [op |-> op, args |-> args, pre |-> Pre, ret |-> ret]

Running == fault # "crashed"

InitCommand ==
  /\ full_command_ = <<>>
  /\ type_ \in CommandTypes
  /\ command_id_ = 0
  /\ handlers_ = <<>>
  /\ reply = <<>>
  /\ inbound = EmptyMsg
  /\ fault = "none"
  /\ last = [op |-> "init", args |-> <<>>, pre |-> <<>>, ret |-> <<>>]

MakeCommand ==
  \E type \in CommandTypes, command \in Keys, params \in Vals,
     erase_params \in BOOLEAN :
    /\ Running
    /\ type_' = type
    /\ full_command_' = makeCommandEntries(full_command_, command, params,
                                           erase_params)
    /\ last' = Call("makeCommand", <<type, command, params, erase_params>>,
                    <<>>)
    /\ UNCHANGED <<command_id_, handlers_, reply, inbound, fault>>

\* full_command_[1] on an empty vector is an out-of-bounds write: the
\* process either dies or the write lands outside the vector's elements
\* and size() stays 0.
AddParam ==
  \E param \in Keys, param_vals \in Vals :
    /\ Running
    /\ Len(full_command_) < MaxEntries
    /\ IF full_command_ = <<>>
       THEN /\ fault' \in { "crashed", "oob" }
            /\ full_command_' = full_command_
       ELSE /\ full_command_' = Append(full_command_, <<param, param_vals>>)
            /\ fault' = fault
    /\ last' = Call("addParam", <<param, param_vals>>, <<>>)
    /\ UNCHANGED <<type_, command_id_, handlers_, reply, inbound>>

GetCommand ==
  /\ Running
  /\ last' = Call("getCommand", <<>>, getCommand(full_command_))
  /\ UNCHANGED <<full_command_, type_, command_id_, handlers_, reply,
                 inbound, fault>>

GetType ==
  /\ Running
  /\ last' = Call("getType", <<>>, type_)
  /\ UNCHANGED <<full_command_, type_, command_id_, handlers_, reply,
                 inbound, fault>>

SetType ==
  \E type \in CommandTypes :
    /\ Running
    /\ type_' = type
    /\ last' = Call("setType", <<type>>, <<>>)
    /\ UNCHANGED <<full_command_, command_id_, handlers_, reply, inbound,
                 fault>>

GetCommandId ==
  /\ Running
  /\ last' = Call("getCommandId", <<>>, command_id_)
  /\ UNCHANGED <<full_command_, type_, command_id_, handlers_, reply,
                 inbound, fault>>

SetCommandId ==
  \E commandId \in CommandIds :
    /\ Running
    /\ command_id_' = commandId
    /\ last' = Call("setCommandId", <<commandId>>, <<>>)
    /\ UNCHANGED <<full_command_, type_, handlers_, reply, inbound, fault>>

ToStringCall ==
  \E append_newline \in BOOLEAN :
    /\ Running
    /\ last' = Call("toString", <<append_newline>>,
                    toString(full_command_, append_newline))
    /\ UNCHANGED <<full_command_, type_, command_id_, handlers_, reply,
                 inbound, fault>>

Next ==
  \/ MakeCommand
  \/ AddParam
  \/ GetCommand
  \/ GetType
  \/ SetType
  \/ GetCommandId
  \/ SetCommandId
  \/ ToStringCall

Spec == InitCommand /\ [][Next]_vars

(* ------------------------- Command: reply check ------------------------ *)

\* A Command as left by its constructors: no entries, or the verb entry.
InitReply ==
  /\ full_command_ \in { <<>>, << <<<<"p">>, <<>>>> >> }
  /\ type_ \in CommandTypes
  /\ command_id_ = 0
  /\ handlers_ = <<>>
  /\ reply \in Replies
  /\ inbound = EmptyMsg
  /\ fault = "none"
  /\ last = [op |-> "init", args |-> <<>>, pre |-> <<>>, ret |-> <<>>]

CheckResponse ==
    /\ Running
    /\ last' = Call("checkResponse", <<reply>>, checkResponse(reply))
    /\ UNCHANGED <<full_command_, type_, command_id_, handlers_, reply,
                 inbound, fault>>

NextReply == CheckResponse \/ SetCommandId

SpecReply == InitReply /\ [][NextReply]_vars

(* ---------------------------- CommandHandler --------------------------- *)

\* util::usedAndNotEqual, string and vector overloads.
usedAndNotEqual(str1, str2) == str1 # "" /\ str1 # str2

usedAndNotEqualVec(vec1, vec2) == Len(vec1) > 0 /\ vec1 # vec2

CommandHandler(sample_command, f) ==
  [sample_command_ |-> sample_command, process_func_ |-> f]

getSampleCommand(h) == h.sample_command_

\* Variant: command_type is compared even when the sample leaves it empty.
operatorEq_typeAlwaysCompared(h, cmd_msg) ==
  LET sample_command == h.sample_command_
  IN  IF sample_command.command_type # cmd_msg.command_type THEN FALSE
      ELSE IF usedAndNotEqual(sample_command.pose_reference,
                              cmd_msg.pose_reference) THEN FALSE
      ELSE IF usedAndNotEqual(sample_command.pose_type, cmd_msg.pose_type)
        THEN FALSE
      ELSE IF usedAndNotEqualVec(sample_command.pose, cmd_msg.pose) THEN FALSE
      ELSE IF usedAndNotEqual(sample_command.velocity_type,
                              cmd_msg.velocity_type) THEN FALSE
      ELSE TRUE

\* Variant: the arguments of the command_type test are swapped, so the
\* message's field is the one tested for use.
operatorEq_swappedType(h, cmd_msg) ==
  LET sample_command == h.sample_command_
  IN  IF usedAndNotEqual(cmd_msg.command_type, sample_command.command_type)
        THEN FALSE
      ELSE IF usedAndNotEqual(sample_command.pose_reference,
                              cmd_msg.pose_reference) THEN FALSE
      ELSE IF usedAndNotEqual(sample_command.pose_type, cmd_msg.pose_type)
        THEN FALSE
      ELSE IF usedAndNotEqualVec(sample_command.pose, cmd_msg.pose) THEN FALSE
      ELSE IF usedAndNotEqual(sample_command.velocity_type,
                              cmd_msg.velocity_type) THEN FALSE
      ELSE TRUE

\* CommandHandler::operator==: five tests, velocity is not among them.
operatorEq(h, cmd_msg) ==
  LET sample_command == h.sample_command_
  IN  IF usedAndNotEqual(sample_command.command_type, cmd_msg.command_type)
        THEN FALSE
      ELSE IF usedAndNotEqual(sample_command.pose_reference,
                              cmd_msg.pose_reference) THEN FALSE
      ELSE IF usedAndNotEqual(sample_command.pose_type, cmd_msg.pose_type)
        THEN FALSE
      ELSE IF usedAndNotEqualVec(sample_command.pose, cmd_msg.pose) THEN FALSE
      ELSE IF usedAndNotEqual(sample_command.velocity_type,
                              cmd_msg.velocity_type) THEN FALSE
      ELSE TRUE

\* The Command a transform function builds for a message.
Invoke(f, cmd_msg) == [made_by |-> f, from |-> cmd_msg]

\* Variant: no guard; calling an empty std::function throws.
processMsg_noGuard(h, cmd_msg) ==
  IF h.process_func_ = NoFunc
    THEN [ret |-> Null, invoked |-> <<>>, error_logged |-> FALSE,
          thrown |-> TRUE]
    ELSE [ret |-> Invoke(h.process_func_, cmd_msg),
          invoked |-> <<<<h.process_func_, cmd_msg>>>>,
          error_logged |-> FALSE, thrown |-> FALSE]

processMsg(h, cmd_msg) ==
  IF h.process_func_ = NoFunc
    THEN [ret |-> Null, invoked |-> <<>>, error_logged |-> TRUE,
          thrown |-> FALSE]
    ELSE [ret |-> Invoke(h.process_func_, cmd_msg),
          invoked |-> <<<<h.process_func_, cmd_msg>>>>,
          error_logged |-> FALSE, thrown |-> FALSE]

InitHandler ==
  /\ full_command_ = <<>>
  /\ type_ = "Cmd"
  /\ command_id_ = 0
  /\ handlers_ \in { <<CommandHandler(sc, f)>> :
                        sc \in Samples, f \in {NoFunc} \cup Funcs }
  /\ reply = <<>>
  /\ inbound \in Msgs
  /\ fault = "none"
  /\ last = [op |-> "init", args |-> <<>>, pre |-> <<>>, ret |-> <<>>]

OperatorEq ==
  \E i \in 1..Len(handlers_) :
    /\ Running
    /\ last' = Call("operator==", <<i>>, operatorEq(handlers_[i], inbound))
    /\ UNCHANGED <<full_command_, type_, command_id_, handlers_, reply,
                   inbound, fault>>

ProcessMsg ==
  \E i \in 1..Len(handlers_) :
    LET r == processMsg(handlers_[i], inbound)
    IN  /\ Running
        /\ last' = Call("processMsg", <<i>>, r)
        /\ fault' = IF r.thrown THEN "crashed" ELSE fault
        /\ UNCHANGED <<full_command_, type_, command_id_, handlers_, reply,
                       inbound>>

GetSampleCommand ==
  \E i \in 1..Len(handlers_) :
    /\ Running
    /\ last' = Call("getSampleCommand", <<i>>, getSampleCommand(handlers_[i]))
    /\ UNCHANGED <<full_command_, type_, command_id_, handlers_, reply,
                   inbound, fault>>

NextHandler == OperatorEq \/ ProcessMsg \/ GetSampleCommand

SpecHandler == InitHandler /\ [][NextHandler]_vars

(* ---------------------------- CommandRegister -------------------------- *)

RECURSIVE find_if(_, _, _)
find_if(hs, i, msg_cmd) ==
  IF i > Len(hs) THEN Len(hs) + 1
  ELSE IF operatorEq(hs[i], msg_cmd) THEN i
  ELSE find_if(hs, i + 1, msg_cmd)

\* Variant: the scan keeps going and the last matching handler wins.
findHandler_lastMatch(hs, msg_cmd) ==
  LET M == { i \in 1..Len(hs) : operatorEq(hs[i], msg_cmd) }
  IN  IF M = {} THEN Null ELSE CHOOSE i \in M : \A j \in M : j <= i

\* The result is the position of the handler found (handlers are uniquely
\* owned, so a position identifies one), Null for nullptr.
findHandler(hs, msg_cmd) ==
  LET foundItem == find_if(hs, 1, msg_cmd)
  IN  IF foundItem # Len(hs) + 1 THEN foundItem ELSE Null

\* Samples and messages of the registry runs: command_type, pose_type and
\* velocity vary, the other fields are left empty.
Plain(m) == m.pose_reference = "" /\ m.pose = <<>> /\ m.velocity_type = ""

RegSamples == { sc \in Samples : Plain(sc) }

RegMsgs == { m \in Msgs : Plain(m) }

InitRegister ==
  /\ full_command_ = <<>>
  /\ type_ = "Cmd"
  /\ command_id_ = 0
  /\ handlers_ = <<>>
  /\ reply = <<>>
  /\ inbound \in RegMsgs
  /\ fault = "none"
  /\ last = [op |-> "init", args |-> <<>>, pre |-> <<>>, ret |-> <<>>]

RegisterHandler ==
  \E sc \in RegSamples, f \in {NoFunc, "f1"} :
    /\ Running
    /\ Len(handlers_) < MaxHandlers
    /\ handlers_' = Append(handlers_, CommandHandler(sc, f))
    /\ last' = Call("registerHandler", <<sc, f>>, <<>>)
    /\ UNCHANGED <<full_command_, type_, command_id_, reply, inbound, fault>>

FindHandler ==
  /\ Running
  /\ last' = Call("findHandler", <<>>, findHandler(handlers_, inbound))
  /\ UNCHANGED <<full_command_, type_, command_id_, handlers_, reply,
                 inbound, fault>>

NextRegister == RegisterHandler \/ FindHandler \/ OperatorEq \/ ProcessMsg

SpecRegister == InitRegister /\ [][NextRegister]_vars

(* --------------------------- Command: claims --------------------------- *)

RenderEntry(e) ==
  IF e[2] = <<>> THEN e[1] \o <<";">>
  ELSE e[1] \o <<" ", ":", " ">> \o e[2] \o <<";">>

RECURSIVE RenderAll(_)
RenderAll(es) ==
  IF es = <<>> THEN <<>> ELSE RenderEntry(Head(es)) \o RenderAll(Tail(es))

\* C5: toString(appendNewline) is the entries in insertion order, each as
\* its key alone when the value is empty and as key " : " value otherwise,
\* each followed by ";", then one newline iff appendNewline; with entries
\* and no newline the text ends in ";", and no entries give "" or "\n".
C5_ToStringRendering ==
  last.op = "toString" =>
    LET body == RenderAll(full_command_)
        nl   == last.args[1]
    IN  /\ last.ret = (IF nl THEN body \o <<NL>> ELSE body)
        /\ (~nl /\ full_command_ # <<>>) => last.ret[Len(last.ret)] = ";"
        /\ full_command_ = <<>> => last.ret = (IF nl THEN <<NL>> ELSE <<>>)

C5_Witness ==
  /\ last.op = "toString"
  /\ Len(full_command_) = 2
  /\ full_command_[1][2] = <<>>
  /\ full_command_[2][2] # <<>>
  /\ last.args[1]

\* The telegram grammar: every entry is terminated by ";"; an entry is
\* key, or key " : " value.
RECURSIVE Pieces(_, _)
Pieces(s, cur) ==
  IF s = <<>> THEN <<>>
  ELSE IF Head(s) = ";" THEN <<cur>> \o Pieces(Tail(s), <<>>)
  ELSE Pieces(Tail(s), Append(cur, Head(s)))

SepAt(piece) ==
  { i \in 1..(Len(piece) - 2) : SubSeq(piece, i, i + 2) = <<" ", ":", " ">> }

ParseEntry(piece) ==
  IF SepAt(piece) = {} THEN <<piece, <<>>>>
  ELSE LET i == CHOOSE j \in SepAt(piece) : \A k \in SepAt(piece) : j <= k
       IN  <<SubSeq(piece, 1, i - 1), SubSeq(piece, i + 3, Len(piece))>>

ParseTelegram(s) ==
  LET ps == Pieces(s, <<>>) IN [i \in 1..Len(ps) |-> ParseEntry(ps[i])]

Forbidden == { ";", ":", NL }

Clean(str) == \A i \in 1..Len(str) : str[i] \notin Forbidden

WellFormed(fc) ==
  /\ Len(fc) >= 1
  /\ \A i \in 1..Len(fc) : fc[i][1] # <<>> /\ Clean(fc[i][1]) /\ Clean(fc[i][2])

\* C6: for a Command with at least one entry, non-empty keys and no ";",
\* ":" or newline in keys and values, parsing toString(false) by the
\* telegram grammar gives back exactly the entries, in order.
C6_RoundTrip ==
  (last.op = "toString" /\ ~last.args[1] /\ WellFormed(full_command_)) =>
    ParseTelegram(last.ret) = full_command_

C6_Witness ==
  /\ last.op = "toString"
  /\ ~last.args[1]
  /\ WellFormed(full_command_)
  /\ Len(full_command_) = 2
  /\ full_command_[1][2] # <<>>
  /\ full_command_[2][2] = <<>>

\* C7: checkResponse(s) is false iff s is exactly "error", whatever the
\* Command's entries, type and id.
C7_CheckResponse ==
  last.op = "checkResponse" => (last.ret = FALSE <=> last.args[1] = ErrorStr)

C7_Witness ==
  /\ last.op = "checkResponse"
  /\ last.args[1] = <<"e", "r", "r", "o", "r", " ">>
  /\ last.ret = TRUE
  /\ full_command_ # <<>>
  /\ command_id_ = 7

\* C8: addParam(key, value) appends (key, value) as the new last entry from
\* every state of the entries, the empty list included, and makes no
\* out-of-bounds access.
C8_AddParamAppends ==
  last.op = "addParam" =>
    /\ full_command_ = Append(last.pre.full_command_,
                              <<last.args[1], last.args[2]>>)
    /\ fault = last.pre.fault

\* C9: makeCommand(type, verb, params, eraseExisting) sets the type, leaves
\* entries[0] = (verb, params); with eraseExisting exactly that one entry;
\* without it and a non-empty list only the first entry is replaced; on an
\* empty list one entry is appended; command_id is unchanged and
\* getCommand() then gives verb.
C9_MakeCommand ==
  last.op = "makeCommand" =>
    LET type  == last.args[1]
        verb  == last.args[2]
        prm   == last.args[3]
        erase == last.args[4]
        old   == last.pre.full_command_
    IN  /\ type_ = type
        /\ Len(full_command_) >= 1
        /\ full_command_[1] = <<verb, prm>>
        /\ erase => Len(full_command_) = 1
        /\ (~erase /\ old # <<>>) =>
             /\ Len(full_command_) = Len(old)
             /\ \A i \in 2..Len(old) : full_command_[i] = old[i]
        /\ old = <<>> => Len(full_command_) = 1
        /\ command_id_ = last.pre.command_id_
        /\ getCommand(full_command_) = verb

C9_Witness ==
  /\ last.op = "makeCommand"
  /\ ~last.args[4]
  /\ Len(last.pre.full_command_) = 2
  /\ last.pre.full_command_[1] # <<last.args[2], last.args[3]>>
  /\ last.pre.command_id_ = 7
  /\ last.pre.type_ # last.args[1]

(* ----------------------- handler, registry: claims -------------------- *)

Matching(hs, m) == { i \in 1..Len(hs) : operatorEq(hs[i], m) }

\* C1: findHandler(msg) returns the handler at the smallest registration
\* index whose match predicate accepts msg, and null exactly when no
\* registered handler matches.
C1_FirstMatch ==
  last.op = "findHandler" =>
    LET M == Matching(handlers_, inbound)
    IN  /\ M = {} <=> last.ret = Null
        /\ M # {} => /\ last.ret \in M
                     /\ \A j \in M : last.ret <= j

C1_Witness ==
  /\ last.op = "findHandler"
  /\ Cardinality(Matching(handlers_, inbound)) = 2
  /\ handlers_[1] # handlers_[2]
  /\ last.ret = 1

\* C2: the default match predicate is true iff usedAndNotEqual(sample.f,
\* msg.f) is false for each of command_type, pose_reference, pose_type,
\* pose, velocity_type and velocity.
C2_SixFieldConjunction ==
  last.op = "operator==" =>
    LET sc == handlers_[last.args[1]].sample_command_
    IN  last.ret <=>
          /\ ~usedAndNotEqual(sc.command_type, inbound.command_type)
          /\ ~usedAndNotEqual(sc.pose_reference, inbound.pose_reference)
          /\ ~usedAndNotEqual(sc.pose_type, inbound.pose_type)
          /\ ~usedAndNotEqualVec(sc.pose, inbound.pose)
          /\ ~usedAndNotEqual(sc.velocity_type, inbound.velocity_type)
          /\ ~usedAndNotEqualVec(sc.velocity, inbound.velocity)

IsCatchAll(h) ==
  LET sc == h.sample_command_
  IN  /\ sc.command_type = "" /\ sc.pose_reference = "" /\ sc.pose_type = ""
      /\ sc.pose = <<>> /\ sc.velocity_type = "" /\ sc.velocity = <<>>

\* C3: a handler whose sample is entirely empty matches every message; a
\* registry holding such a catch-all never answers null, and answers the
\* catch-all exactly when no handler registered before it matches.
C3_CatchAll ==
  /\ (last.op = "operator==" /\ IsCatchAll(handlers_[last.args[1]]))
       => last.ret = TRUE
  /\ last.op = "findHandler" =>
       \A k \in 1..Len(handlers_) :
         IsCatchAll(handlers_[k]) =>
           /\ last.ret # Null
           /\ last.ret = k <=>
                \A j \in 1..(k - 1) : ~operatorEq(handlers_[j], inbound)

C3_Witness ==
  /\ last.op = "findHandler"
  /\ Len(handlers_) = 2
  /\ handlers_[1].sample_command_.command_type = "PTP"
  /\ IsCatchAll(handlers_[2])
  /\ inbound.command_type = "LIN"
  /\ last.ret = 2

Field(m, n) ==
  CASE n = 1 -> m.command_type [] n = 2 -> m.pose_reference
    [] n = 3 -> m.pose_type    [] n = 4 -> m.pose
    [] n = 5 -> m.velocity_type [] n = 6 -> m.velocity

Populated(m) == { n \in 1..6 : Len(Field(m, n)) > 0 }

\* A populates a strict superset of B's fields, with B's values on those.
Refines(A, B) ==
  /\ Populated(B) \subseteq Populated(A)
  /\ Populated(B) # Populated(A)
  /\ \A n \in Populated(B) : Field(A, n) = Field(B, n)

\* C4: if sample A populates a strict superset of the fields of sample B,
\* with identical values on B's fields, every message matching A matches B.
C4_Specificity ==
  (last.op = "operator==" /\ last.ret = TRUE) =>
    LET h == handlers_[last.args[1]]
    IN  \A B \in Samples :
          Refines(h.sample_command_, B) =>
            operatorEq(CommandHandler(B, h.process_func_), inbound)

C4_Witness ==
  /\ last.op = "operator=="
  /\ last.ret = TRUE
  /\ Cardinality(Populated(handlers_[1].sample_command_)) >= 3
  /\ Cardinality(Populated(inbound)) = 6

\* C10: processMsg(msg) never fails fatally: without a transform it gives a
\* null Command and invokes nothing; with one it invokes it exactly once on
\* msg and gives what the transform produced; sample and registry are
\* unchanged.
C10_ProcessMsg ==
  last.op = "processMsg" =>
    LET h == handlers_[last.args[1]]
    IN  /\ fault = last.pre.fault
        /\ ~last.ret.thrown
        /\ h.process_func_ = NoFunc =>
             last.ret.ret = Null /\ last.ret.invoked = <<>>
        /\ h.process_func_ # NoFunc =>
             /\ last.ret.invoked = <<<<h.process_func_, inbound>>>>
             /\ last.ret.ret = Invoke(h.process_func_, inbound)
        /\ handlers_ = last.pre.handlers_

C10_Witness ==
  /\ last.op = "processMsg"
  /\ Len(handlers_) = 2
  /\ last.args[1] = 2
  /\ handlers_[2].process_func_ = NoFunc
  /\ handlers_[1].process_func_ # NoFunc
  /\ last.ret.ret = Null

====
